---- MODULE Spec2Model ----
(***************************************************************************)
(* Parallel quicksort with OpenMP tasks (qsort_demo.c).                    *)
(*                                                                         *)
(* One test iteration of main: an array of ints is generated, copied,      *)
(* sorted sequentially (qSort on A1) and then sorted inside a parallel     *)
(* region (qSortPar on A2, started by one thread under "single nowait",    *)
(* explicit tasks joined at the region's closing barrier).                 *)
(*                                                                         *)
(* Every thread has a call stack of frames.  A frame is one activation of  *)
(* qSort, qSortPar or partition; a step of a thread executes the next       *)
(* statement of its top frame.  C indices are kept: arrays are functions   *)
(* on 0..length-1.                                                         *)
(***************************************************************************)
EXTENDS Integers, Sequences, FiniteSets, TLC

\* ---------------------------------------------------------------- bounds
MaxLen == 4         \* array lengths 0..MaxLen
MaxVal == 1         \* element values 0..MaxVal
MaxThreads == 2     \* thread_count in 1..MaxThreads

Values == 0..MaxVal
\* cutoff values: 1..MaxLen+1 covers "below", "equal to" and "above" every length
Cutoffs == 1..(MaxLen + 1)
\* the call stack of a thread is finite: a call beyond MaxDepth frames does not
\* happen (stack exhaustion); Bounded below states that the sort never gets there
MaxDepth == MaxLen + 3
\* the runtime holds finitely many tasks: no task is created beyond MaxTasks;
\* Bounded below states that the sort never gets there
MaxTasks == 2 * MaxLen + 1

VARIABLES
    thread_count,   \* number of threads of the parallel region
    cutoff,         \* ranges shorter than cutoff are sorted inline
    length,         \* length of the arrays
    input,          \* the generated data (A1 before the sorts; never written)
    A1,             \* array sorted by qSort
    A2,             \* array sorted by qSortPar
    pc,             \* main: "start", "seq", "par", "done"
    tpc,            \* per thread, inside the parallel region:
                    \*   "out", "single", "in_single", "barrier"
    singleTaken,    \* the single construct was claimed by a thread
    stack,          \* per thread: sequence of frames, top is last
    pool,           \* explicit tasks created and not yet started
    created,        \* number of tasks created so far
    finished,       \* number of tasks completed so far
    partCalls,      \* number of calls of partition so far
    writes,         \* number of array element stores so far
    oob,            \* an access outside the array happened (undefined behaviour)
    hist            \* record of what happened so far:
                    \*   spawned:   every task created
                    \*   splits:    every range split, with the index partition returned
                    \*   initCalls: number of executions of line 112
                    \*   seqlog:    partition calls and swaps of qSort(A1, length)
                    \*   tlog:      per thread, partition calls and swaps of the unit
                    \*              of work it executes

vars == <<thread_count, cutoff, length, input, A1, A2, pc, tpc, singleTaken,
          stack, pool, created, finished, partCalls, writes, oob, hist>>

Threads == 0..(thread_count - 1)

\* ---------------------------------------------------------------- helpers
Arr(a) == IF a = "A1" THEN A1 ELSE A2

InBounds(k) == k \in 0..(length - 1)

\* values a read of element k can yield: outside the array the read is
\* undefined behaviour and yields any value (oob records it); a cursor gets at
\* most one element past either end of the array (guards of ScanI, ScanJ)
Reads(a, k) == IF InBounds(k) THEN {Arr(a)[k]} ELSE Values

Top(t) == stack[t][Len(stack[t])]

Frame(fn, arr, start, len, task, root) ==
    [fn |-> fn, arr |-> arr, start |-> start, length |-> len, pc |-> "entry",
     p |-> 0, pivot |-> 0, i |-> 0, j |-> 0, task |-> task, root |-> root]

\* replace the top frame of thread t
SetTop(t, f) == [stack EXCEPT ![t] = [@ EXCEPT ![Len(@)] = f]]
\* replace the top frame by f and push g above it (a call)
Call(t, f, g) == [stack EXCEPT ![t] = Append([@ EXCEPT ![Len(@)] = f], g)]
\* pop the top frame (a return without value)
Return(t) == [stack EXCEPT ![t] = SubSeq(@, 1, Len(@) - 1)]

\* thread t may execute statements of its top frame
Running(t) ==
    /\ t \in Threads
    /\ stack[t] # <<>>
    /\ \/ pc = "seq" /\ t = 0
       \/ pc = "par" /\ tpc[t] \in {"in_single", "barrier"}

CanCall(t) == Len(stack[t]) < MaxDepth

CanSpawn == created < MaxTasks

IsPrefix(s, u) == Len(s) <= Len(u) /\ SubSeq(u, 1, Len(s)) = s

\* ---------------------------------------------------------------- partition
\* faulty variant: the test of lines 151, 194 taken as length > 0
NeedsSortFromOne(len) == len > 0

\* lines 151, 194: the range needs sorting
NeedsSort(len) == len > 1

\* faulty variant: the test of line 198 taken as length <= cutoff
BelowCutoffInclusive(len, c) == len <= c

\* faulty variant: the test of line 198 off by one
BelowCutoffOffByOne(len, c) == len < c - 1

\* line 198: the range is sorted inline
BelowCutoff(len, c) == len < c

\* faulty variant: the first element taken as the pivot
PivotIndexFirst(len) == 0

\* line 165: index of the pivot element
PivotIndex(len) == len \div 2

\* faulty variant: the right cursor starts one past the end (j = length)
LastIndexPastEnd(len) == len

\* line 167: the start of the right cursor
LastIndex(len) == len - 1

\* faulty variant: the comparison of line 171 inverted
ScanLeftInverted(v, pivot) == v > pivot

\* line 171: the left scan goes on
ScanLeftGoesOn(v, pivot) == v < pivot

\* faulty variant: the right scan passes elements equal to the pivot
ScanRightInclusive(v, pivot) == v >= pivot

\* line 172: the right scan goes on
ScanRightGoesOn(v, pivot) == v > pivot

\* faulty variant: the test of line 174 taken as i > j
CursorsMetStrict(i, j) == i > j

\* line 174: the cursors met
CursorsMet(i, j) == i >= j

\* faulty variant: the swap without the temporary: A[i] = A[j]; A[j] = A[i]
SwappedNoTemp(a, x, y) == [a EXCEPT ![x] = a[y]]

\* lines 176-178: exchange of elements x and y of array a
Swapped(a, x, y) == [a EXCEPT ![x] = a[y], ![y] = a[x]]

\* the record with event e appended to the log of the running sort: of
\* qSort(A1, length) on the main thread, of the unit of work of thread t inside
\* the parallel region
Logged(t, e) ==
    IF pc = "seq" THEN [hist EXCEPT !.seqlog = Append(@, e)]
    ELSE [hist EXCEPT !.tlog[t] = Append(@, e)]

\* the contents of a range of an array, as a sequence
Contents(a, start, len) ==
    [n \in 1..len |-> IF InBounds(start + n - 1) THEN a[start + n - 1] ELSE -1]

\* line 171: while (A[i] < pivot) i++;
ScanI(t) ==
    /\ Running(t)
    /\ LET f == Top(t)
           k == f.start + f.i IN
       /\ f.fn = "partition" /\ f.pc = "scan_i"
       /\ k \in -1..length
       /\ \E v \in Reads(f.arr, k) :
            stack' = SetTop(t, IF ScanLeftGoesOn(v, f.pivot)
                               THEN [f EXCEPT !.i = f.i + 1]
                               ELSE [f EXCEPT !.pc = "scan_j"])
       /\ oob' = (oob \/ ~InBounds(k))
    /\ UNCHANGED <<thread_count, cutoff, length, input, A1, A2, pc, tpc,
                   singleTaken, pool, created, finished, partCalls, writes, hist>>

\* faulty variant: the Fork branch creates the right task only
AfterPartitionRightOnly(c) ==
    IF c.fn = "qSortPar" /\ ~BelowCutoff(c.length, cutoff) THEN "task_right" ELSE "left"

\* where the caller of partition goes on once p is known: qSort at line 153,
\* qSortPar at the test of line 198 and then line 199 or line 204
AfterPartition(c) ==
    IF c.fn = "qSortPar" /\ ~BelowCutoff(c.length, cutoff) THEN "task_left" ELSE "left"

\* line 172: while (A[j] > pivot) j--;  and, when the scan stops, line 174:
\* if (i >= j) return i;  the caller stores the result in p (lines 152, 195)
ScanJ(t) ==
    /\ Running(t)
    /\ LET f == Top(t)
           k == f.start + f.j
           n == Len(stack[t])
           c == stack[t][n - 1] IN
       /\ f.fn = "partition" /\ f.pc = "scan_j"
       /\ k \in -1..length
       /\ \E v \in Reads(f.arr, k) :
            /\ stack' = IF ScanRightGoesOn(v, f.pivot)
                          THEN SetTop(t, [f EXCEPT !.j = f.j - 1])
                        ELSE IF CursorsMet(f.i, f.j)
                          THEN [stack EXCEPT ![t] =
                                  Append(SubSeq(@, 1, n - 2),
                                         [c EXCEPT !.p = f.i, !.pc = AfterPartition(c)])]
                        ELSE SetTop(t, [f EXCEPT !.pc = "swap"])
            /\ hist' = IF ~ScanRightGoesOn(v, f.pivot) /\ CursorsMet(f.i, f.j)
                         THEN [hist EXCEPT !.splits = @ \cup
                                 {[arr |-> f.arr, start |-> f.start,
                                   length |-> f.length, p |-> f.i]}]
                         ELSE hist
       /\ oob' = (oob \/ ~InBounds(k))
    /\ UNCHANGED <<thread_count, cutoff, length, input, A1, A2, pc, tpc,
                   singleTaken, pool, created, finished, partCalls, writes>>

\* lines 176-181: swap A[i] and A[j]; i++; j--
Swap(t) ==
    /\ Running(t)
    /\ LET f == Top(t)
           x == f.start + f.i
           y == f.start + f.j
           ok == InBounds(x) /\ InBounds(y) IN
       /\ f.fn = "partition" /\ f.pc = "swap"
       /\ A1' = IF ok /\ f.arr = "A1" THEN Swapped(A1, x, y) ELSE A1
       /\ A2' = IF ok /\ f.arr = "A2" THEN Swapped(A2, x, y) ELSE A2
       /\ oob' = (oob \/ ~ok)
       /\ writes' = writes + 2
       /\ hist' = Logged(t, <<"swap", x, y, <<>>>>)
       /\ stack' = SetTop(t, [f EXCEPT !.i = f.i + 1, !.j = f.j - 1, !.pc = "scan_i"])
    /\ UNCHANGED <<thread_count, cutoff, length, input, pc, tpc,
                   singleTaken, pool, created, finished, partCalls>>

\* ---------------------------------------------------------------- qSort / qSortPar
\* lines 153, 199, 205: the left sub-range of frame f
LeftRange(f) == [start |-> f.start, length |-> f.p]

\* faulty variant: the right sub-range starts one element early (A + p - 1)
RightRangeOverlapping(f) == [start |-> f.start + f.p - 1, length |-> f.length - f.p + 1]

\* lines 154, 200, 209: the right sub-range of frame f
RightRange(f) == [start |-> f.start + f.p, length |-> f.length - f.p]

\* lines 151-152, 194-195: if (length > 1) p = partition(A, length), up to the
\* first statements of partition, lines 165-167: pivot = A[length / 2]; i = 0;
\* j = length - 1
SortEntry(t) ==
    /\ Running(t)
    /\ LET f == Top(t)
           k == f.start + PivotIndex(f.length) IN
       /\ f.fn \in {"qSort", "qSortPar"} /\ f.pc = "entry"
       /\ NeedsSort(f.length)
       /\ CanCall(t)
       /\ \E v \in Reads(f.arr, k) :
            stack' = Call(t, [f EXCEPT !.pc = "partition"],
                          [Frame("partition", f.arr, f.start, f.length, f.task, FALSE)
                             EXCEPT !.pivot = v, !.i = 0, !.j = LastIndex(f.length),
                                    !.pc = "scan_i"])
       /\ oob' = (oob \/ ~InBounds(k))
       /\ partCalls' = partCalls + 1
       /\ hist' = Logged(t, <<"partition", f.start, f.length,
                              Contents(Arr(f.arr), f.start, f.length)>>)
    /\ UNCHANGED <<thread_count, cutoff, length, input, A1, A2, pc, tpc,
                   singleTaken, pool, created, finished, writes>>

\* lines 151/156, 194/212: a range of length <= 1 is left alone, or both
\* sides are done: the invocation returns.  The return of the first frame of
\* a task completes the task.
SortReturn(t) ==
    /\ Running(t)
    /\ LET f == Top(t) IN
       /\ f.fn \in {"qSort", "qSortPar"}
       /\ \/ f.pc = "entry" /\ ~NeedsSort(f.length)
          \/ f.pc = "ret"
       /\ stack' = Return(t)
       /\ finished' = IF f.root THEN finished + 1 ELSE finished
       /\ hist' = IF pc = "par" /\ (f.root \/ Len(stack[t]) = 1)
                    THEN [hist EXCEPT !.tlog[t] = <<>>]
                    ELSE hist
    /\ UNCHANGED <<thread_count, cutoff, length, input, A1, A2, pc, tpc,
                   singleTaken, pool, created, partCalls, writes, oob>>

\* line 153: qSort(A, p)
SeqLeft(t) ==
    /\ Running(t)
    /\ LET f == Top(t)
           r == LeftRange(f) IN
       /\ f.fn = "qSort" /\ f.pc = "left"
       /\ CanCall(t)
       /\ stack' = Call(t, [f EXCEPT !.pc = "right"],
                        Frame("qSort", f.arr, r.start, r.length, f.task, FALSE))
    /\ UNCHANGED <<thread_count, cutoff, length, input, A1, A2, pc, tpc,
                   singleTaken, pool, created, finished, partCalls, writes, oob, hist>>

\* line 154: qSort(A + p, length - p)
SeqRight(t) ==
    /\ Running(t)
    /\ LET f == Top(t)
           r == RightRange(f) IN
       /\ f.fn = "qSort" /\ f.pc = "right"
       /\ CanCall(t)
       /\ stack' = Call(t, [f EXCEPT !.pc = "ret"],
                        Frame("qSort", f.arr, r.start, r.length, f.task, FALSE))
    /\ UNCHANGED <<thread_count, cutoff, length, input, A1, A2, pc, tpc,
                   singleTaken, pool, created, finished, partCalls, writes, oob, hist>>

\* faulty variant: the inline branch sorts the right side twice
ParLeftOnRight(t) ==
    /\ Running(t)
    /\ LET f == Top(t)
           r == RightRange(f) IN
       /\ f.fn = "qSortPar" /\ f.pc = "left"
       /\ CanCall(t)
       /\ stack' = Call(t, [f EXCEPT !.pc = "right"],
                        Frame("qSortPar", f.arr, r.start, r.length, f.task, FALSE))
    /\ UNCHANGED <<thread_count, cutoff, length, input, A1, A2, pc, tpc,
                   singleTaken, pool, created, finished, partCalls, writes, oob, hist>>

\* line 199: qSortPar(A, p) on the current thread
ParLeft(t) ==
    /\ Running(t)
    /\ LET f == Top(t)
           r == LeftRange(f) IN
       /\ f.fn = "qSortPar" /\ f.pc = "left"
       /\ CanCall(t)
       /\ stack' = Call(t, [f EXCEPT !.pc = "right"],
                        Frame("qSortPar", f.arr, r.start, r.length, f.task, FALSE))
    /\ UNCHANGED <<thread_count, cutoff, length, input, A1, A2, pc, tpc,
                   singleTaken, pool, created, finished, partCalls, writes, oob, hist>>

\* line 200: qSortPar(A + p, length - p) on the current thread
ParRight(t) ==
    /\ Running(t)
    /\ LET f == Top(t)
           r == RightRange(f) IN
       /\ f.fn = "qSortPar" /\ f.pc = "right"
       /\ CanCall(t)
       /\ stack' = Call(t, [f EXCEPT !.pc = "ret"],
                        Frame("qSortPar", f.arr, r.start, r.length, f.task, FALSE))
    /\ UNCHANGED <<thread_count, cutoff, length, input, A1, A2, pc, tpc,
                   singleTaken, pool, created, finished, partCalls, writes, oob, hist>>

\* faulty variant: the task captures the start of the parent's range, not its own
TaskAtZero(arr, r, path) == [arr |-> arr, start |-> 0, length |-> r.length, task |-> path]

\* a task: the captured range (firstprivate A, p, length) and its place in
\* the task tree (the path of left/right forks from the initial call)
Task(arr, r, path) == [arr |-> arr, start |-> r.start, length |-> r.length, task |-> path]

\* lines 204-205: #pragma omp task ... qSortPar(A, p)
TaskLeft(t) ==
    /\ Running(t)
    /\ LET f == Top(t) IN
       /\ f.fn = "qSortPar" /\ f.pc = "task_left"
       /\ CanSpawn
       /\ pool' = pool \cup {Task(f.arr, LeftRange(f), Append(f.task, 0))}
       /\ created' = created + 1
       /\ hist' = [hist EXCEPT !.spawned =
                      @ \cup {Task(f.arr, LeftRange(f), Append(f.task, 0))}]
       /\ stack' = SetTop(t, [f EXCEPT !.pc = "task_right"])
    /\ UNCHANGED <<thread_count, cutoff, length, input, A1, A2, pc, tpc,
                   singleTaken, finished, partCalls, writes, oob>>

\* lines 208-209: #pragma omp task ... qSortPar(A + p, length - p)
TaskRight(t) ==
    /\ Running(t)
    /\ LET f == Top(t) IN
       /\ f.fn = "qSortPar" /\ f.pc = "task_right"
       /\ CanSpawn
       /\ pool' = pool \cup {Task(f.arr, RightRange(f), Append(f.task, 1))}
       /\ created' = created + 1
       /\ hist' = [hist EXCEPT !.spawned =
                      @ \cup {Task(f.arr, RightRange(f), Append(f.task, 1))}]
       /\ stack' = SetTop(t, [f EXCEPT !.pc = "ret"])
    /\ UNCHANGED <<thread_count, cutoff, length, input, A1, A2, pc, tpc,
                   singleTaken, finished, partCalls, writes, oob>>

\* ---------------------------------------------------------------- OpenMP runtime
\* thread t is at a task scheduling point: in the barrier with nothing to
\* run, or right after the creation of a task (lines 205, 209)
AtSchedulingPoint(t) ==
    \/ tpc[t] = "barrier" /\ stack[t] = <<>>
    \/ /\ tpc[t] \in {"in_single", "barrier"}
       /\ stack[t] # <<>>
       /\ Top(t).fn = "qSortPar"
       /\ \/ Top(t).pc = "task_right"
          \/ Top(t).pc = "ret" /\ ~BelowCutoff(Top(t).length, cutoff)

\* tied tasks: a new task may be started by t only if it descends from every
\* task suspended on t
MayStart(t, k) ==
    \A n \in 1..Len(stack[t]) :
        stack[t][n].task # k.task /\ IsPrefix(stack[t][n].task, k.task)

\* faulty variant: a started task stays in the pool and can be started again
TaskStartTwice(t) ==
    /\ pc = "par" /\ t \in Threads
    /\ AtSchedulingPoint(t)
    /\ CanCall(t)
    /\ \E k \in pool :
         /\ MayStart(t, k)
         /\ pool' = pool
         /\ hist' = [hist EXCEPT !.tlog[t] = <<>>]
         /\ stack' = [stack EXCEPT ![t] =
                        Append(@, Frame("qSortPar", k.arr, k.start, k.length, k.task, TRUE))]
    /\ UNCHANGED <<thread_count, cutoff, length, input, A1, A2, pc, tpc,
                   singleTaken, created, finished, partCalls, writes, oob>>

\* a thread starts a task of the pool: the task's body is qSortPar on the
\* captured range (lines 205, 209)
TaskStart(t) ==
    /\ pc = "par" /\ t \in Threads
    /\ AtSchedulingPoint(t)
    /\ CanCall(t)
    /\ \E k \in pool :
         /\ MayStart(t, k)
         /\ pool' = pool \ {k}
         /\ hist' = [hist EXCEPT !.tlog[t] = <<>>]
         /\ stack' = [stack EXCEPT ![t] =
                        Append(@, Frame("qSortPar", k.arr, k.start, k.length, k.task, TRUE))]
    /\ UNCHANGED <<thread_count, cutoff, length, input, A1, A2, pc, tpc,
                   singleTaken, created, finished, partCalls, writes, oob>>

\* line 82: qSort(A1, length)
CallQSort ==
    /\ pc = "start"
    /\ pc' = "seq"
    /\ stack' = [stack EXCEPT ![0] = <<Frame("qSort", "A1", 0, length, <<>>, FALSE)>>]
    /\ UNCHANGED <<thread_count, cutoff, length, input, A1, A2, tpc,
                   singleTaken, pool, created, finished, partCalls, writes, oob, hist>>

\* line 108: #pragma omp parallel num_threads(thread_count), after qSort returned
EnterParallel ==
    /\ pc = "seq" /\ stack[0] = <<>>
    /\ pc' = "par"
    /\ tpc' = [t \in Threads |-> "single"]
    /\ UNCHANGED <<thread_count, cutoff, length, input, A1, A2, stack,
                   singleTaken, pool, created, finished, partCalls, writes, oob, hist>>

\* faulty variant: the initial call leaves out the last element: qSortPar(A2, length - 1)
SingleExecShort(t) ==
    /\ pc = "par" /\ t \in Threads /\ tpc[t] = "single"
    /\ ~singleTaken
    /\ singleTaken' = TRUE
    /\ hist' = [hist EXCEPT !.initCalls = @ + 1]
    /\ tpc' = [tpc EXCEPT ![t] = "in_single"]
    /\ stack' = [stack EXCEPT ![t] = <<Frame("qSortPar", "A2", 0, length - 1, <<>>, FALSE)>>]
    /\ UNCHANGED <<thread_count, cutoff, length, input, A1, A2, pc,
                   pool, created, finished, partCalls, writes, oob>>

\* faulty variant: no single construct, every thread of the team makes the call
SingleExecEvery(t) ==
    /\ pc = "par" /\ t \in Threads /\ tpc[t] = "single"
    /\ singleTaken' = TRUE
    /\ hist' = [hist EXCEPT !.initCalls = @ + 1]
    /\ tpc' = [tpc EXCEPT ![t] = "in_single"]
    /\ stack' = [stack EXCEPT ![t] = <<Frame("qSortPar", "A2", 0, length, <<>>, FALSE)>>]
    /\ UNCHANGED <<thread_count, cutoff, length, input, A1, A2, pc,
                   pool, created, finished, partCalls, writes, oob>>

\* lines 111-112: the first thread to reach the single construct runs qSortPar(A2, length)
SingleExec(t) ==
    /\ pc = "par" /\ t \in Threads /\ tpc[t] = "single"
    /\ ~singleTaken
    /\ singleTaken' = TRUE
    /\ hist' = [hist EXCEPT !.initCalls = @ + 1]
    /\ tpc' = [tpc EXCEPT ![t] = "in_single"]
    /\ stack' = [stack EXCEPT ![t] = <<Frame("qSortPar", "A2", 0, length, <<>>, FALSE)>>]
    /\ UNCHANGED <<thread_count, cutoff, length, input, A1, A2, pc,
                   pool, created, finished, partCalls, writes, oob>>

\* line 111: the other threads skip the single construct and, with nowait,
\* go on to the end of the region
SingleSkip(t) ==
    /\ pc = "par" /\ t \in Threads /\ tpc[t] = "single"
    /\ singleTaken
    /\ tpc' = [tpc EXCEPT ![t] = "barrier"]
    /\ UNCHANGED <<thread_count, cutoff, length, input, A1, A2, pc, stack,
                   singleTaken, pool, created, finished, partCalls, writes, oob, hist>>

\* lines 112-113: the initial call returned; its thread reaches the end of the region
SingleEnd(t) ==
    /\ pc = "par" /\ t \in Threads /\ tpc[t] = "in_single"
    /\ stack[t] = <<>>
    /\ tpc' = [tpc EXCEPT ![t] = "barrier"]
    /\ UNCHANGED <<thread_count, cutoff, length, input, A1, A2, pc, stack,
                   singleTaken, pool, created, finished, partCalls, writes, oob, hist>>

\* faulty variant: the region ends when the threads arrived, tasks finished or not
BarrierWithoutJoin ==
    /\ pc = "par"
    /\ \A t \in Threads : tpc[t] = "barrier"
    /\ pc' = "done"
    /\ tpc' = [t \in Threads |-> "out"]
    /\ UNCHANGED <<thread_count, cutoff, length, input, A1, A2, stack,
                   singleTaken, pool, created, finished, partCalls, writes, oob, hist>>

\* line 113: the implicit barrier at the end of the parallel region: all
\* threads arrived and all explicit tasks of the region completed
Barrier ==
    /\ pc = "par"
    /\ \A t \in Threads : tpc[t] = "barrier" /\ stack[t] = <<>>
    /\ pool = {}
    /\ pc' = "done"
    /\ tpc' = [t \in Threads |-> "out"]
    /\ UNCHANGED <<thread_count, cutoff, length, input, A1, A2, stack,
                   singleTaken, pool, created, finished, partCalls, writes, oob, hist>>

\* ---------------------------------------------------------------- specification
Arrays == UNION {[0..(n - 1) -> Values] : n \in 0..MaxLen}

\* lines 41-44, 58-65: the arguments are read, the data is generated and copied
Init ==
    /\ thread_count \in 1..MaxThreads
    /\ cutoff \in Cutoffs
    /\ input \in Arrays
    /\ length = Cardinality(DOMAIN input)
    /\ A1 = input
    /\ A2 = input
    /\ pc = "start"
    /\ tpc = [t \in Threads |-> "out"]
    /\ singleTaken = FALSE
    /\ stack = [t \in Threads |-> <<>>]
    /\ pool = {}
    /\ created = 0
    /\ finished = 0
    /\ partCalls = 0
    /\ writes = 0
    /\ oob = FALSE
    /\ hist = [spawned |-> {}, splits |-> {}, initCalls |-> 0, seqlog |-> <<>>,
               tlog |-> [t \in Threads |-> <<>>]]

Step(t) ==
    \/ ScanI(t)
    \/ ScanJ(t)
    \/ Swap(t)
    \/ SortEntry(t)
    \/ SortReturn(t)
    \/ SeqLeft(t)
    \/ SeqRight(t)
    \/ ParLeft(t)
    \/ ParRight(t)
    \/ TaskLeft(t)
    \/ TaskRight(t)
    \/ TaskStart(t)
    \/ SingleExec(t)
    \/ SingleSkip(t)
    \/ SingleEnd(t)

Next ==
    \/ CallQSort
    \/ EnterParallel
    \/ Barrier
    \/ \E t \in 0..(MaxThreads - 1) : Step(t)

Spec == Init /\ [][Next]_vars

\* every thread that can take a step eventually takes one (the threads of the
\* team run; the barrier is passed once its condition holds)
FairSpec ==
    /\ Spec
    /\ WF_vars(CallQSort \/ EnterParallel \/ Barrier)
    /\ \A t \in 0..(MaxThreads - 1) : WF_vars(Step(t))

\* ---------------------------------------------------------------- properties
IsSorted(a) == \A x, y \in DOMAIN a : x < y => a[x] <= a[y]

Count(a, v) == Cardinality({k \in DOMAIN a : a[k] = v})

IsPerm(a, b) == DOMAIN a = DOMAIN b /\ \A v \in Values : Count(a, v) = Count(b, v)

\* the part a[start .. start+len-1] is in non-decreasing order
RangeSorted(a, start, len) ==
    \A x, y \in start..(start + len - 1) : x < y => a[x] <= a[y]

AllEqual(a) == \A x, y \in DOMAIN a : a[x] = a[y]

\* every frame of every thread
FramesOf(t) == {stack[t][n] : n \in 1..Len(stack[t])}
AllFrames == UNION {FramesOf(t) : t \in Threads}

\* the frame is an invocation of a sorter whose partition has returned
HasSplit(f) ==
    /\ f.fn \in {"qSort", "qSortPar"}
    /\ f.pc \in {"left", "right", "ret", "task_left", "task_right"}

\* C1: once the closing barrier of the parallel region has been passed, A2 is in
\* non-decreasing order and is a permutation of the input, for every array,
\* every thread_count >= 1, every cutoff >= 1 and every interleaving.
C1_ParallelSortCorrect ==
    pc = "done" => IsSorted(A2) /\ IsPerm(A2, input) /\ ~oob

\* C1 witness: the barrier is passed after a sort of an unsorted array of
\* MaxLen elements that forked at every level with two threads.
C1_Witness ==
    /\ pc = "done" /\ length = MaxLen /\ thread_count >= 2
    /\ ~IsSorted(input)
    /\ created >= 4

\* qSort(A1, length) has returned to main
SeqReturned == pc \in {"par", "done"} \/ (pc = "seq" /\ stack[0] = <<>>)

\* C2: after qSort returns the array is in non-decreasing order and a
\* permutation of the input; and inside the recursion, a sub-range whose call
\* has returned is in order (left side before line 154, the range before line 156).
C2_SequentialSortCorrect ==
    /\ SeqReturned => IsSorted(A1) /\ IsPerm(A1, input) /\ ~oob
    /\ pc = "seq" /\ stack[0] # <<>> =>
         LET f == Top(0) IN
           /\ IsPerm(A1, input)
           /\ f.fn = "qSort" /\ f.pc = "right" => RangeSorted(A1, f.start, f.p)
           /\ f.fn = "qSort" /\ f.pc = "ret" => RangeSorted(A1, f.start, f.length)

\* C2 witness: qSort returned on an unsorted array of MaxLen elements that
\* needed stores.
C2_Witness ==
    /\ pc = "seq" /\ stack[0] = <<>>
    /\ length = MaxLen /\ ~IsSorted(input) /\ writes >= 4

\* the array elements of a range
Cells(arr, start, len) == {<<arr, k>> : k \in start..(start + len - 1)}

\* frame n of thread t is the first frame of a unit of work: of the initial
\* call or of a task
IsBase(t, n) == n = 1 \/ stack[t][n].root

Bases(t) == {n \in 1..Len(stack[t]) : IsBase(t, n)}

\* the elements a live unit of work with first frame f can still address: its
\* range, less what it has handed to the tasks it created (lines 205, 209)
Held(f) ==
    IF f.fn = "qSortPar" /\ f.pc = "task_right"
      THEN Cells(f.arr, RightRange(f).start, RightRange(f).length)
    ELSE IF f.fn = "qSortPar" /\ f.pc = "ret" /\ ~BelowCutoff(f.length, cutoff)
      THEN {}
    ELSE Cells(f.arr, f.start, f.length)

PendingRange(k) == Cells(k.arr, k.start, k.length)

\* the unit of work that the top frame of thread t belongs to
OwnBase(t) == stack[t][CHOOSE n \in Bases(t) : \A m \in Bases(t) : m <= n]

\* the elements the next statement of thread t reads or writes
NextAccess(t) ==
    IF stack[t] = <<>> THEN {}
    ELSE LET f == Top(t) IN
      IF f.fn \in {"qSort", "qSortPar"} /\ f.pc = "entry" /\ NeedsSort(f.length)
        THEN {<<f.arr, f.start + PivotIndex(f.length)>>}
      ELSE IF f.fn = "partition" /\ f.pc = "scan_i" THEN {<<f.arr, f.start + f.i>>}
      ELSE IF f.fn = "partition" /\ f.pc = "scan_j" THEN {<<f.arr, f.start + f.j>>}
      ELSE IF f.fn = "partition" /\ f.pc = "swap"
        THEN {<<f.arr, f.start + f.i>>, <<f.arr, f.start + f.j>>}
      ELSE {}

C4_PartitionProgress ==
    \A f \in AllFrames : HasSplit(f) =>
        /\ f.length > 1
        /\ 0 < f.p /\ f.p < f.length
        /\ LeftRange(f).length > 0 /\ LeftRange(f).length < f.length
        /\ RightRange(f).length > 0 /\ RightRange(f).length < f.length
        /\ Cells(f.arr, LeftRange(f).start, LeftRange(f).length)
             \cup Cells(f.arr, RightRange(f).start, RightRange(f).length)
             = Cells(f.arr, f.start, f.length)
        /\ Cells(f.arr, LeftRange(f).start, LeftRange(f).length)
             \cap Cells(f.arr, RightRange(f).start, RightRange(f).length) = {}

\* C4 witness: partition has returned on a range of MaxLen elements that are
\* all equal to the pivot.
C4_Witness ==
    \E f \in AllFrames :
        /\ HasSplit(f) /\ f.length = MaxLen /\ f.length >= 3
        /\ AllEqual(input)

\* the larger of two numbers
Max(a, b) == IF a >= b THEN a ELSE b

\* no thread nests more invocations than the array has elements, and no more
\* than two tasks per split are created; the limits of the stack and of the
\* runtime are never reached
Bounded ==
    /\ \A t \in Threads : Len(stack[t]) <= Max(1, length) /\ Len(stack[t]) < MaxDepth
    /\ created <= 2 * Max(0, length - 1) /\ created < MaxTasks
    /\ finished <= created

\* C5: termination.  Under fair scheduling of the threads every run ends with
\* the closing barrier passed (so qSort has returned and every task created
\* has finished), and no run recurses or creates tasks without bound.
C5_Termination == <>(pc = "done") /\ []Bounded

\* C5 witness: the barrier is passed after sorting an all-duplicate array of
\* MaxLen elements, forked down to single elements.
C5_Witness ==
    /\ pc = "done" /\ length = MaxLen /\ AllEqual(input)
    /\ cutoff = 1 /\ finished = 2 * (length - 1)

\* C6 as stated: with cutoff >= length no task is ever created.
C6_NoTaskWhenCutoffAtLeastLength == cutoff >= length => created = 0 /\ pool = {}

\* C6 amended: with cutoff > length (or an array of at most one element) no
\* task is ever created; a range whose length equals the cutoff is forked.
C6_NoTaskWhenCutoffAboveLength ==
    (cutoff > length \/ length <= 1) => created = 0 /\ pool = {}

\* C6 witness: an unsorted array of MaxLen elements was sorted in the parallel
\* region with cutoff = length + 1.
C6_Witness ==
    /\ pc = "done" /\ length = MaxLen /\ cutoff = length + 1
    /\ ~IsSorted(input) /\ IsSorted(A2)

\* the non-decreasing arrangement of the elements of a: position k holds the
\* least value v with more than k elements <= v
UpTo(a, v) == Cardinality({x \in DOMAIN a : a[x] <= v})
Arranged(a) ==
    [k \in DOMAIN a |-> CHOOSE v \in Values :
                           /\ UpTo(a, v) > k
                           /\ \A w \in Values : UpTo(a, w) > k => v <= w]

\* C7: configuration independence.  After the barrier A2 equals the array
\* qSort produced from the same input, and both equal a function of the
\* input alone, whatever thread_count, cutoff and the interleaving were.
C7_ConfigurationIndependent ==
    pc = "done" => A2 = A1 /\ A2 = Arranged(input)

\* C7 witness: a non-increasing array of MaxLen elements, not all equal, was
\* sorted with cutoff = 1 and MaxThreads threads.
C7_Witness ==
    /\ pc = "done" /\ length = MaxLen /\ cutoff = 1 /\ thread_count = MaxThreads
    /\ \A x, y \in DOMAIN input : x < y => input[x] >= input[y]
    /\ ~AllEqual(input)

\* the top frame of t is an invocation that took the Fork branch and has
\* submitted both tasks
ForkDone(t) ==
    /\ stack[t] # <<>>
    /\ Top(t).fn = "qSortPar" /\ Top(t).pc = "ret"
    /\ ~BelowCutoff(Top(t).length, cutoff)

\* C8: completion only at the barrier.  An invocation that forked can return
\* at once, whatever the state of its tasks; once the barrier is passed no
\* task is pending or running and every task created has finished.
C8_CompletionAtBarrier ==
    /\ \A t \in Threads : ForkDone(t) => ENABLED SortReturn(t)
    /\ pc = "done" => /\ pool = {}
                      /\ \A t \in Threads : stack[t] = <<>>
                      /\ finished = created

\* C8 witness: the initial call has returned and every thread waits in the
\* barrier with nothing started, while tasks are pending and A2 is not sorted.
C8_Witness ==
    /\ pc = "par" /\ singleTaken
    /\ \A t \in Threads : tpc[t] = "barrier" /\ stack[t] = <<>>
    /\ pool # {} /\ finished = 0
    /\ ~IsSorted(A2)

\* C9: arrays of length 0 and 1 are left unchanged by both sorters: nothing
\* is written, partition is never called, no task is created.
C9_ShortArraysUntouched ==
    length <= 1 => /\ A1 = input /\ A2 = input
                   /\ writes = 0 /\ partCalls = 0
                   /\ created = 0 /\ pool = {}

\* C9 witness: both sorters have run on an array of one element, with
\* cutoff = 1 and two threads.
C9_Witness ==
    /\ pc = "done" /\ length = 1 /\ cutoff = 1 /\ thread_count >= 2

\* C10: idempotence.  On an array already in non-decreasing order neither
\* sorter ever changes the contents of its array.
C10_Idempotent == IsSorted(input) => A1 = input /\ A2 = input

\* C10 witness: both sorters have run on a sorted array of MaxLen elements,
\* not all equal, with stores (of equal elements) and with tasks.
C10_Witness ==
    /\ pc = "done" /\ length = MaxLen /\ IsSorted(input) /\ ~AllEqual(input)
    /\ writes > 0 /\ created > 0

\* the next value of an array
ArrNext(a) == IF a = "A1" THEN A1' ELSE A2'

\* an element changed by a step lies, in the thread that took the step, inside
\* the range of the running partition and of every invocation around it
WritesInsideRange ==
    \A a \in {"A1", "A2"} : \A k \in 0..(length - 1) :
        ArrNext(a)[k] # Arr(a)[k] =>
            \E t \in Threads :
                /\ stack[t] # <<>> /\ stack'[t] # stack[t]
                /\ Top(t).fn = "partition"
                /\ \A n \in 1..Len(stack[t]) :
                     /\ stack[t][n].arr = a
                     /\ k \in stack[t][n].start..(stack[t][n].start + stack[t][n].length - 1)

\* the range of the invocation that created task k: of the initial call, or
\* of the task one fork above
ParentRange(k) ==
    IF Len(k.task) = 1 THEN {Cells("A2", 0, length)}
    ELSE {Cells(q.arr, q.start, q.length) :
            q \in {q \in hist.spawned : q.task = SubSeq(k.task, 1, Len(k.task) - 1)}}

\* the range of every task lies inside the range of the invocation that created it
TasksNested ==
    \A k \in hist.spawned :
        /\ ParentRange(k) # {}
        /\ \A r \in ParentRange(k) : Cells(k.arr, k.start, k.length) \subseteq r

\* C11: frame of partition and of a sort call.  Every store of a call on
\* [start, start+L) goes to an element inside that range, and so do the
\* stores of every invocation nested in it and of every task descending from
\* it; elements outside keep their value.
C11_Frame == [][WritesInsideRange]_vars /\ []TasksNested

\* C11 witness: a task on a range that does not start at element 0 has just
\* swapped two elements.
C11_Witness ==
    /\ pc = "par"
    /\ \E t \in Threads :
         /\ stack[t] # <<>>
         /\ stack[t][1].root /\ stack[t][1].start > 0
         /\ hist.tlog[t] # <<>>
         /\ hist.tlog[t][Len(hist.tlog[t])][1] = "swap"

\* the log thread t writes to
LogOf(t) == IF pc = "seq" THEN hist.seqlog ELSE hist.tlog[t]

\* the contents a range had at the latest call of partition in a log
AtLastCall(log) ==
    LET n == CHOOSE n \in 1..Len(log) :
                 /\ log[n][1] = "partition"
                 /\ \A m \in (n + 1)..Len(log) : log[m][1] # "partition"
    IN log[n][4]

\* two sequences hold the same values the same number of times
SameValues(u, w) ==
    /\ Len(u) = Len(w)
    /\ \A v \in Values : Cardinality({n \in 1..Len(u) : u[n] = v})
                         = Cardinality({n \in 1..Len(w) : w[n] = v})

\* thread t returns from partition in this step
PartitionReturns(t) ==
    /\ stack[t] # <<>> /\ Top(t).fn = "partition"
    /\ Len(stack'[t]) = Len(stack[t]) - 1

\* what holds when partition returns p for the range of frame c
PartitionPost(t) ==
    LET c == stack'[t][Len(stack'[t])]
        a == ArrNext(c.arr)
    IN /\ c.length > 1
       /\ \A x \in c.start..(c.start + c.p - 1) :
            \A y \in (c.start + c.p)..(c.start + c.length - 1) : a[x] <= a[y]
       /\ SameValues(Contents(a, c.start, c.length), AtLastCall(LogOf(t)))

\* C12: partition post-condition.  When partition returns p, every element
\* at an index < p is <= every element at an index >= p, and the range holds
\* the values it held at the call, each as many times.
C12_PartitionPost ==
    [][\A t \in Threads : PartitionReturns(t) => PartitionPost(t)]_vars

\* C12 witness: partition has just returned on a range of MaxLen elements
\* after a swap that changed the array.
C12_Witness ==
    \E t \in Threads :
        /\ stack[t] # <<>>
        /\ HasSplit(Top(t)) /\ Top(t).pc \in {"left", "task_left"}
        /\ Top(t).length = MaxLen
        /\ LogOf(t) # <<>> /\ LogOf(t)[Len(LogOf(t))][1] = "swap"
        /\ Arr(Top(t).arr) # input

\* the tasks created by the invocation of frame f
Children(f) == {k \in hist.spawned : k.task \in {Append(f.task, 0), Append(f.task, 1)}}

\* the range of frame g is the range r
HasRange(g, r) == g.start = r.start /\ g.length = r.length

\* the two tasks an invocation creates in the Fork branch
LeftTask(f) ==
    [arr |-> f.arr, start |-> f.start, length |-> f.p, task |-> Append(f.task, 0)]
RightTask(f) ==
    [arr |-> f.arr, start |-> f.start + f.p, length |-> f.length - f.p,
     task |-> Append(f.task, 1)]

\* the Branch rule for frame n of thread t
BranchRule(t, n) ==
    LET f == stack[t][n]
        above == n < Len(stack[t])
        g == stack[t][n + 1]
    IN IF f.length >= cutoff
       THEN \* Fork: two tasks, [0,p) and then [p,L), and no inline recursion
            /\ f.pc \in {"task_left", "task_right", "ret"}
            /\ f.pc = "task_left" => Children(f) = {}
            /\ f.pc = "task_right" => Children(f) = {LeftTask(f)}
            /\ f.pc = "ret" => Children(f) = {LeftTask(f), RightTask(f)}
            /\ above => g.root
       ELSE \* Inline: no task, left side and then right side on this thread
            /\ f.pc \in {"left", "right", "ret"}
            /\ Children(f) = {}
            /\ above => /\ g.fn = "qSortPar" /\ ~g.root
                        /\ f.pc \in {"right", "ret"}
                        /\ f.pc = "right" => HasRange(g, [start |-> f.start, length |-> f.p])
                        /\ f.pc = "ret" =>
                             HasRange(g, [start |-> f.start + f.p, length |-> f.length - f.p])
            /\ f.pc = "ret" => RangeSorted(Arr(f.arr), f.start, f.p)

\* C13: branch rule.  An invocation of qSortPar on a range of length L > 1
\* creates tasks if and only if L >= cutoff: then exactly two, for [0,p) and
\* for [p,L), with no inline recursion; with L < cutoff it creates no task
\* and sorts both sides inline, left before right.
C13_BranchRule ==
    \A t \in Threads : \A n \in 1..Len(stack[t]) :
        (stack[t][n].fn = "qSortPar" /\ HasSplit(stack[t][n])) => BranchRule(t, n)

\* C13 witness: an invocation on a range whose length equals the cutoff has
\* created its two tasks.
C13_Witness ==
    \E t \in Threads :
        /\ stack[t] # <<>>
        /\ Top(t).fn = "qSortPar" /\ Top(t).pc = "ret"
        /\ Top(t).length = cutoff /\ cutoff >= 2
        /\ Cardinality(Children(Top(t))) = 2

\* the events of a log that belong to the invocation on [start, start+len):
\* from its call of partition on, the calls and swaps inside the range
Segment(log, start, len) ==
    LET first == {n \in 1..Len(log) :
                    log[n][1] = "partition" /\ log[n][2] = start /\ log[n][3] = len}
        Inside(e) == IF e[1] = "partition"
                       THEN e[2] >= start /\ e[2] + e[3] <= start + len
                       ELSE /\ e[2] \in start..(start + len - 1)
                            /\ e[3] \in start..(start + len - 1)
    IN IF first = {} THEN <<>>
       ELSE SelectSeq(SubSeq(log, CHOOSE n \in first : TRUE, Len(log)), Inside)

\* C14: inline recursion equals the sequential sorter.  For an invocation of
\* qSortPar on a range of length L < cutoff no task is created in the
\* recursion below it, and once it is complete its partition calls (range
\* and contents at the call) and swaps, in order, are those qSort made on the
\* same range.
C14_InlineEqualsSequential ==
    \A t \in Threads : \A n \in 1..Len(stack[t]) :
        LET f == stack[t][n] IN
        (f.fn = "qSortPar" /\ f.length < cutoff) =>
            /\ \A k \in hist.spawned :
                 Cells(k.arr, k.start, k.length) \subseteq Cells(f.arr, f.start, f.length)
                   => k.task = f.task /\ k.start = f.start /\ k.length = f.length
            /\ (n = Len(stack[t]) /\ f.pc = "ret") =>
                 /\ Segment(hist.tlog[t], f.start, f.length) # <<>>
                 /\ Segment(hist.tlog[t], f.start, f.length)
                      = Segment(hist.seqlog, f.start, f.length)

\* C14 witness: a task on a range shorter than the cutoff has completed its
\* inline sort, with a swap.
C14_Witness ==
    \E t \in Threads :
        /\ pc = "par" /\ stack[t] # <<>>
        /\ Top(t).fn = "qSortPar" /\ Top(t).root /\ Top(t).pc = "ret"
        /\ Top(t).length < cutoff
        /\ Len(Segment(hist.tlog[t], Top(t).start, Top(t).length)) >= 2

\* the least k with 2^k >= n (0 for n <= 1)
CeilLog2(n) == CHOOSE k \in 0..MaxLen : 2^k >= n /\ \A m \in 0..(k - 1) : 2^m < n

\* the number of invocations of qSort or qSortPar nested on the stack of t
SortDepth(t) ==
    Cardinality({n \in 1..Len(stack[t]) : stack[t][n].fn \in {"qSort", "qSortPar"}})

\* C15: all-duplicate input.  With all elements equal neither sorter ever
\* changes its array, partition returns floor(L/2) on every range, and no
\* thread nests more than ceil(log2(length)) + 1 sort invocations.
C15_AllDuplicates ==
    AllEqual(input) =>
        /\ A1 = input /\ A2 = input
        /\ \A f \in AllFrames : HasSplit(f) => f.p = f.length \div 2
        /\ \A q \in hist.splits : q.p = q.length \div 2
        /\ \A t \in Threads : SortDepth(t) <= CeilLog2(length) + 1

\* C15 witness: both sorters have finished on an all-duplicate array of
\* MaxLen elements, and an odd range was split on the way.
C15_Witness ==
    /\ pc = "done" /\ AllEqual(input) /\ length = MaxLen
    /\ \E q \in hist.splits : q.length % 2 = 1 \/ q.length = MaxLen

FrameCells(f) == Cells(f.arr, f.start, f.length)

\* frame h took the Fork branch and has created a task
PastFirstTask(h) ==
    /\ h.fn = "qSortPar" /\ h.pc \in {"task_right", "ret"}
    /\ h.length >= cutoff

\* while the partition of frame n of thread t runs, nothing else works on its range
PartitionAlone(t, n) ==
    LET g == stack[t][n] IN
    /\ n = Len(stack[t])
    /\ \A k \in pool : PendingRange(k) \cap FrameCells(g) = {}
    /\ \A k \in hist.spawned :
         Cells(k.arr, k.start, k.length) \subseteq FrameCells(g)
           => k.start = g.start /\ k.length = g.length /\ k.task = g.task
    /\ \A u \in Threads \ {t} : \A m \in 1..Len(stack[u]) :
         FrameCells(stack[u][m]) \cap FrameCells(g) # {} =>
             /\ PastFirstTask(stack[u][m])
             /\ FrameCells(g) \subseteq FrameCells(stack[u][m])
             /\ FrameCells(g) # FrameCells(stack[u][m])

\* a step of an invocation that has created a task reads and writes no element
NoAccessAfterFork ==
    \A t \in Threads :
        (stack[t] # <<>> /\ PastFirstTask(Top(t)) /\ stack'[t] # stack[t]) =>
            /\ A1' = A1 /\ A2' = A2 /\ oob' = oob
            /\ stack'[t] # <<>> => stack'[t][Len(stack'[t])].fn # "partition"

\* C16: partition before children.  While the partition of a range runs, it
\* is the top of one thread's stack, no task for a part of the range exists,
\* and the only other frames on the range are ancestors that already forked;
\* an invocation makes no array access once it has created a task.
C16_PartitionBeforeChildren ==
    /\ [](\A t \in Threads : \A n \in 1..Len(stack[t]) :
            stack[t][n].fn = "partition" => PartitionAlone(t, n))
    /\ [][NoAccessAfterFork]_vars

\* C16 witness: a task partitions its range on one thread while the
\* invocation that created it is still live on another thread.
C16_Witness ==
    \E t, u \in Threads :
        /\ t # u /\ stack[t] # <<>> /\ stack[u] # <<>>
        /\ Top(t).fn = "partition" /\ Top(t).pc = "swap"
        /\ PastFirstTask(Top(u))
        /\ FrameCells(Top(t)) \subseteq FrameCells(Top(u))

\* thread t is inside the top-level call qSortPar(A2, length) of line 112
InInitialCall(t) ==
    /\ stack[t] # <<>>
    /\ ~stack[t][1].root
    /\ stack[t][1].fn = "qSortPar" /\ stack[t][1].arr = "A2"
    /\ stack[t][1].start = 0 /\ stack[t][1].length = length

\* C17: single initial call.  In the parallel region the call of line 112 is
\* made once, by one thread: the count of calls is 0 before a thread took the
\* single construct and 1 from then on, every frame that is not a task body
\* lies above that one call, and the other threads run task bodies only.
C17_SingleInitialCall ==
    /\ hist.initCalls = (IF singleTaken THEN 1 ELSE 0)
    /\ pc = "done" => hist.initCalls = 1
    /\ Cardinality({t \in Threads : tpc[t] = "in_single"}) <= 1
    /\ pc = "par" => \A t \in Threads :
         stack[t] # <<>> =>
            IF tpc[t] = "in_single" THEN InInitialCall(t)
            ELSE tpc[t] = "barrier" /\ stack[t][1].root /\ stack[t][1].task # <<>>

\* C17 witness: two threads; one is inside the initial call, the other one
\* skipped the single construct and runs a task the sort created.
C17_Witness ==
    /\ pc = "par" /\ thread_count = 2 /\ hist.initCalls = 1
    /\ \E t, u \in Threads :
         /\ tpc[t] = "in_single" /\ InInitialCall(t)
         /\ tpc[u] = "barrier" /\ stack[u] # <<>> /\ stack[u][1].root

\* C18: maximal fan-out.  With cutoff = 1 no invocation of qSortPar sorts a
\* side inline, every task created has a range of at least one element, and
\* once the region is over an array of length L >= 1 has had 2 * (L - 1)
\* tasks created, one of them for each single element when L >= 2.
C18_MaximalFanOut ==
    cutoff = 1 =>
        /\ \A f \in AllFrames : f.fn = "qSortPar" => f.pc \notin {"left", "right"}
        /\ \A f \in AllFrames : f.fn = "qSortPar" /\ HasSplit(f) =>
               f.pc \in {"task_left", "task_right", "ret"}
        /\ \A k \in hist.spawned : k.length >= 1
        /\ created = Cardinality(hist.spawned)
        /\ (pc = "done" /\ length >= 1) =>
               /\ created = 2 * (length - 1)
               /\ length >= 2 => \A x \in 0..(length - 1) :
                      \E k \in hist.spawned : k.start = x /\ k.length = 1

\* C18 witness: a longest array sorted with cutoff = 1: tasks for single
\* elements were created and the count is 2 * (MaxLen - 1).
C18_Witness ==
    /\ pc = "done" /\ cutoff = 1 /\ length = MaxLen
    /\ created = 2 * (MaxLen - 1)
    /\ \E k \in hist.spawned : k.length = 1
    /\ \E k \in hist.spawned : k.length > 1

InRange(f, n) == 0 <= n /\ n <= f.length - 1

\* the indices partition frame f uses in its next array access lie in its range
CursorsInRange(f) ==
    /\ f.pc = "scan_i" => InRange(f, f.i)
    /\ f.pc = "scan_j" => InRange(f, f.j)
    /\ f.pc = "swap" => InRange(f, f.i) /\ InRange(f, f.j) /\ f.i < f.j

\* C19: cursor bounds.  In every partition of a range of length L >= 2 each
\* access A[i] and A[j] of the scans and of the swap has 0 <= i <= L - 1 and
\* 0 <= j <= L - 1, and no access leaves the array.
C19_CursorBounds ==
    /\ ~oob
    /\ \A f \in AllFrames : f.fn = "partition" => f.length >= 2 /\ CursorsInRange(f)

\* C19 witness: after a swap the left scan reads the last element of a range
\* of three or more elements, and stops there.
C19_Witness ==
    \E f \in AllFrames :
        /\ f.fn = "partition" /\ f.pc = "scan_i"
        /\ f.length >= 3 /\ f.i = f.length - 1 /\ f.j < f.i

\* the boundary of split q holds: no element left of it exceeds one right of it
BoundaryHolds(q) ==
    \A x \in q.start..(q.start + q.p - 1) :
        \A y \in (q.start + q.p)..(q.start + q.length - 1) :
            Arr(q.arr)[x] <= Arr(q.arr)[y]

\* C20: split boundaries stay valid.  Once partition has returned p for a
\* range, in every later state every element of [0, p) of the range is less
\* than or equal to every element of [p, L), whatever the tasks on the two
\* sides do and in whatever order.
C20_BoundariesStay ==
    \A q \in hist.splits :
        /\ 0 < q.p /\ q.p < q.length
        /\ BoundaryHolds(q)

\* C20 witness: the boundary of the whole array is established, and two
\* threads partition its two sides at once, each having swapped already.
C20_Witness ==
    \E q \in hist.splits : \E t, u \in Threads :
        /\ q.arr = "A2" /\ q.length = MaxLen /\ t # u
        /\ stack[t] # <<>> /\ stack[u] # <<>>
        /\ Top(t).fn = "partition" /\ Top(t).i > 0
        /\ Top(t).start + Top(t).length <= q.start + q.p
        /\ Top(u).fn = "partition" /\ Top(u).i > 0
        /\ Top(u).start >= q.start + q.p

====
